---------------------------- MODULE Spec2Model ----------------------------
(***************************************************************************)
(* A model of iqcc_calibration_tools/storage/save_utils.py:                *)
(*   extract_string, fetch_results_as_xarray,                              *)
(*   fetch_single_shot_results_as_xarray, find_numbered_folder and         *)
(*   load_dataset.                                                         *)
(*                                                                         *)
(* Strings are sequences of one-character strings, so that prefix tests,   *)
(* slicing and integer formatting are computed rather than assumed.  A     *)
(* file name is the sequence of its dot-separated components, which is     *)
(* what file.split('.') yields.  Python's None is carried by a flag next   *)
(* to the value (a record field "none", "found", "loaded" or "given").     *)
(*                                                                         *)
(* Each function has a specification of its own (SpecExtract, SpecAxes,    *)
(* SpecShape, SpecFind, SpecLoad); the variables of the other functions    *)
(* stay at their idle values.                                              *)
(***************************************************************************)
EXTENDS Integers, Sequences, FiniteSets, TLC

VARIABLES
    \* extract_string and the derivation of meas_vars (lines 27-36, 50-51, 84-87)
    handleKeys, extracted, meas_vars, epc,
    \* fetch_results_as_xarray (lines 39-66)
    handles, qubits, measurement_axis, local_axis, values, ds, apc, aerr, axis0,
    \* fetch_single_shot_results_as_xarray (lines 67-123)
    ss_axis, ss_nq, ss_i, raw, arr, qubit_data, spc, serr,
    \* find_numbered_folder (lines 132-145)
    number, parent, dname, isdir, walk, found, wpc,
    \* load_dataset (lines 149-196)
    serial_is_int, target_filename, parameters, params0, storage, cwd_files,
    base_folder, nc_files, filename, path_built, dataset, json_data, machine,
    load_failed, lqubits, open_handles, result, lpc, lerr

exVars    == <<handleKeys, extracted, meas_vars, epc>>
axisVars  == <<handles, qubits, measurement_axis, local_axis, values, ds, apc, aerr, axis0>>
shapeVars == <<ss_axis, ss_nq, ss_i, raw, arr, qubit_data, spc, serr>>
walkVars  == <<number, parent, dname, isdir, walk, found, wpc>>
loadVars  == <<serial_is_int, target_filename, parameters, params0, storage, cwd_files,
               base_folder, nc_files, filename, path_built, dataset, json_data, machine,
               load_failed, lqubits, open_handles, result, lpc, lerr>>
vars      == <<exVars, axisVars, shapeVars, walkVars, loadVars>>

-----------------------------------------------------------------------------
(* Bounds of the model *)

MaxStrLen == 3
MaxKeys == 2

-----------------------------------------------------------------------------
(* Strings *)

Digits == {"0", "1", "2", "3", "4", "5", "6", "7", "8", "9"}

DigitChar == <<"0", "1", "2", "3", "4", "5", "6", "7", "8", "9">>

\* c.isdigit() for the characters of the model's alphabet
IsDigit(c) == c \in Digits

\* str(n) of an integer, as the f-strings of lines 53, 93, 104 and 137 format it
RECURSIVE StrNat(_)
StrNat(n) == IF n < 10 THEN <<DigitChar[n + 1]>>
             ELSE StrNat(n \div 10) \o <<DigitChar[(n % 10) + 1]>>

Str(n) == IF n < 0 THEN <<"-">> \o StrNat(0 - n) ELSE StrNat(n)

\* d.startswith(prefix)
StartsWith(d, prefix) ==
    /\ Len(d) >= Len(prefix)
    /\ SubSeq(d, 1, Len(prefix)) = prefix

SeqsUpTo(S, n) == UNION {[1..k -> S] : k \in 0..n}

Range(s) == {s[i] : i \in DOMAIN s}

Reverse(s) == [i \in 1..Len(s) |-> s[Len(s) + 1 - i]]

-----------------------------------------------------------------------------
(* extract_string, lines 27-36 *)

NoResult == [none |-> TRUE, val |-> <<>>]

\* line 29: the index of the first digit, 0-based; -1 stands for None
FirstDigitIndex(input_string) ==
    LET hits == {i \in 1..Len(input_string) : IsDigit(input_string[i])}
    IN  IF hits = {} THEN -1
        ELSE (CHOOSE i \in hits : \A j \in hits : i <= j) - 1

extract_string(input_string) ==
    LET index == FirstDigitIndex(input_string)
    IN  IF index /= -1
        THEN [none |-> FALSE, val |-> SubSeq(input_string, 1, index)]
        ELSE NoResult

\* lines 50-51 and 84-87: the set of the prefixes that are not None
MeasVars(keys) ==
    {extract_string(h).val : h \in {k \in keys : ~extract_string(k).none}}

-----------------------------------------------------------------------------
(* Idle values: what the variables of a function hold while another one runs *)

IdleExtract ==
    /\ handleKeys = {}
    /\ extracted = <<>>
    /\ meas_vars = {}
    /\ epc = "idle"

IdleAxes ==
    /\ handles = {}
    /\ qubits = <<>>
    /\ measurement_axis = <<>>
    /\ local_axis = <<>>
    /\ values = <<>>
    /\ ds = <<>>
    /\ apc = "idle"
    /\ aerr = ""
    /\ axis0 = <<>>

IdleShape ==
    /\ ss_axis = <<>>
    /\ ss_nq = 0
    /\ ss_i = 0
    /\ raw = <<>>
    /\ arr = <<>>
    /\ qubit_data = <<>>
    /\ spc = "idle"
    /\ serr = <<>>

IdleFind ==
    /\ number = 0
    /\ parent = <<>>
    /\ dname = <<>>
    /\ isdir = <<>>
    /\ walk = <<>>
    /\ found = [found |-> FALSE, path |-> <<>>]
    /\ wpc = "idle"

IdleLoad ==
    /\ serial_is_int = TRUE
    /\ target_filename = ""
    /\ parameters = [given |-> FALSE, fields |-> <<>>]
    /\ params0 = [given |-> FALSE, fields |-> <<>>]
    /\ storage = [found |-> FALSE, files |-> {}]
    /\ cwd_files = {}
    /\ base_folder = [none |-> TRUE, path |-> ""]
    /\ nc_files = {}
    /\ filename = [none |-> TRUE, val |-> <<>>]
    /\ path_built = FALSE
    /\ dataset = [open |-> FALSE, qubit |-> <<>>]
    /\ json_data = [has_ip |-> FALSE, ip |-> <<>>]
    /\ machine = [loaded |-> FALSE, qubits |-> {}]
    /\ load_failed = FALSE
    /\ lqubits = <<>>
    /\ open_handles = {}
    /\ result = <<>>
    /\ lpc = "idle"
    /\ lerr = ""

-----------------------------------------------------------------------------
(* SpecExtract: the handle keys of a call and the measurement variables    *)
(* either assembler derives from them (lines 50-51, 84-87)                 *)

Chars == {"I", "q", "1", "0"}

Strings == SeqsUpTo(Chars, MaxStrLen)

InitExtract ==
    /\ handleKeys \in {Range(ks) : ks \in SeqsUpTo(Strings, MaxKeys)}
    /\ extracted = <<>>
    /\ meas_vars = {}
    /\ epc = "start"
    /\ IdleAxes /\ IdleShape /\ IdleFind /\ IdleLoad

\* extract_string(handle) for every handle of handles.keys()
ExtractEach ==
    /\ epc = "start"
    /\ extracted' = [h \in handleKeys |-> extract_string(h)]
    /\ epc' = "extracted"
    /\ UNCHANGED <<handleKeys, meas_vars>>
    /\ UNCHANGED <<axisVars, shapeVars, walkVars, loadVars>>

\* list(set([... if extract_string(handle) is not None]))
CollectMeasVars ==
    /\ epc = "extracted"
    /\ meas_vars' = MeasVars(handleKeys)
    /\ epc' = "done"
    /\ UNCHANGED <<handleKeys, extracted>>
    /\ UNCHANGED <<axisVars, shapeVars, walkVars, loadVars>>

NextExtract == ExtractEach \/ CollectMeasVars

SpecExtract == InitExtract /\ [][NextExtract]_vars

\* C7: for every string, extract_string returns None if the string has no
\* decimal digit or begins with a digit, and otherwise the non-empty
\* substring preceding the first digit; so no derived measurement-variable
\* name is the empty string.
C7_ExtractNoneOrNonEmptyPrefix ==
    /\ epc \in {"extracted", "done"} =>
         \A h \in handleKeys :
            LET hasDigit == \E i \in 1..Len(h) : h[i] \in Digits
                r == extracted[h]
            IN  IF ~hasDigit \/ (Len(h) > 0 /\ h[1] \in Digits)
                THEN r.none
                ELSE /\ ~r.none
                     /\ r.val /= <<>>
                     /\ \E k \in 1..Len(h) :
                          /\ h[k] \in Digits
                          /\ \A j \in 1..(k - 1) : h[j] \notin Digits
                          /\ r.val = SubSeq(h, 1, k - 1)
    /\ epc = "done" => <<>> \notin meas_vars

-----------------------------------------------------------------------------
(* SpecAxes: fetch_results_as_xarray, lines 39-66                          *)
(*                                                                         *)
(* A dict is the sequence of its entries [key, val] in insertion order.    *)
(* An array is known by its shape.  Every stream of a call returns the     *)
(* same shape.                                                             *)

MaxQubits == 2
MaxAxes == 2

QubitNames == {"q1", "q2", "q3"}
AxisKeys == {"freq", "flux", "qubit"}
VarNames == {<<"I">>, <<"q">>}
CoordValues == {<<"c1">>, <<"c1", "c2">>}
AxisLens == {1, 2}

Distinct(s) == \A i, j \in DOMAIN s : i /= j => s[i] /= s[j]

Keys(d) == [i \in DOMAIN d |-> d[i].key]

HasKey(d, k) == \E i \in DOMAIN d : d[i].key = k

Get(d, k) == d[CHOOSE i \in DOMAIN d : d[i].key = k].val

\* d[k] = v on a dict: an existing key keeps its position
DictSet(d, k, v) ==
    IF HasKey(d, k)
    THEN [i \in DOMAIN d |-> IF d[i].key = k THEN [key |-> k, val |-> v] ELSE d[i]]
    ELSE Append(d, [key |-> k, val |-> v])

\* the stream names <prefix><1-based index> of n streams per variable
StreamKeys(vs, n) == {v \o Str(i) : v \in vs, i \in 1..n}

AxisSpecs ==
    {d \in SeqsUpTo([key : AxisKeys, val : CoordValues], MaxAxes) : Distinct(Keys(d))}

QubitSeqs == {q \in SeqsUpTo(QubitNames, MaxQubits) : Distinct(q)}

FetchShapes == SeqsUpTo(AxisLens, MaxAxes)

InitAxes ==
    /\ handles \in {StreamKeys(vs, n) : vs \in SUBSET VarNames, n \in 0..MaxQubits}
    /\ qubits \in QubitSeqs
    /\ measurement_axis \in AxisSpecs
    /\ axis0 = measurement_axis
    /\ local_axis = <<>>
    /\ values = <<>>
    /\ ds = <<>>
    /\ apc = "start"
    /\ aerr = ""
    /\ IdleExtract /\ IdleShape /\ IdleFind /\ IdleLoad

\* lines 50-54: handles.get(f"{meas_var}{i + 1}").fetch_all() for every variable
\* and qubit; a missing key gives None, and None has no fetch_all
FetchAll ==
    /\ apc = "start"
    /\ LET mv == MeasVars(handles)
           wanted == StreamKeys(mv, Len(qubits))
       IN  IF wanted \subseteq handles
           THEN \E fs \in FetchShapes :
                  /\ values' = <<Cardinality(mv)>>
                                 \o (IF mv = {} THEN <<>> ELSE <<Len(qubits)>>)
                                 \o (IF mv = {} \/ qubits = <<>> THEN <<>> ELSE fs)
                  /\ apc' = "fetched"
                  /\ aerr' = ""
           ELSE /\ values' = <<>>
                /\ apc' = "raised"
                /\ aerr' = "AttributeError"
    /\ UNCHANGED <<handles, qubits, measurement_axis, local_axis, ds, axis0>>
    /\ UNCHANGED <<exVars, shapeVars, walkVars, loadVars>>

\* lines 55-56: squeeze a trailing dimension of size 1 out of np.array(values)
SqueezeLast(shape) ==
    IF shape[Len(shape)] = 1 THEN SubSeq(shape, 1, Len(shape) - 1) ELSE shape

\* line 57, on the caller's dict
InsertQubitAxis(axis, qs) == DictSet(axis, "qubit", qs)

\* the axes left in the caller's order, the qubit axis last
ReversedAxisKeptInOrder(axis) == axis

\* line 58: a new dict, the keys in reverse
ReversedAxis(axis) == Reverse(axis)

\* line 62: the dimension labels of every data variable
DimsOf(axis) == Keys(axis)

\* lines 61-64: the library accepts a variable when its array has one
\* dimension per label, each as long as the label's coordinate
Conforms(shape, axis) ==
    /\ Len(shape) = Len(axis)
    /\ \A i \in DOMAIN axis : shape[i] = Len(axis[i].val)

SqueezeAndBuild ==
    /\ apc = "fetched"
    /\ LET sq == SqueezeLast(values)
           caller == InsertQubitAxis(measurement_axis, qubits)
           loc == ReversedAxis(caller)
           mv == MeasVars(handles)
       IN  /\ values' = sq
           /\ measurement_axis' = caller
           /\ local_axis' = loc
           /\ IF \A v \in mv : Conforms(Tail(sq), loc)
              THEN /\ ds' = [v \in mv |-> [dims |-> DimsOf(loc), shape |-> Tail(sq)]]
                   /\ apc' = "done"
                   /\ aerr' = ""
              ELSE /\ ds' = <<>>
                   /\ apc' = "raised"
                   /\ aerr' = "ValueError"
    /\ UNCHANGED <<handles, qubits, axis0>>
    /\ UNCHANGED <<exVars, shapeVars, walkVars, loadVars>>

NextAxes == FetchAll \/ SqueezeAndBuild

SpecAxes == InitAxes /\ [][NextAxes]_vars

\* C6: when the caller's axis specification has no "qubit" key, every data
\* variable of the result has the dimension labels "qubit" followed by the
\* caller's axis names in reverse of their original order, and the caller's
\* mapping is left with a "qubit" entry holding the qubit names in the order
\* of the qubits sequence.
C6_QubitFirstThenReversedAxes ==
    (apc = "done" /\ ~HasKey(axis0, "qubit")) =>
        /\ \A v \in DOMAIN ds : ds[v].dims = <<"qubit">> \o Reverse(Keys(axis0))
        /\ HasKey(measurement_axis, "qubit")
        /\ Get(measurement_axis, "qubit") = qubits

\* a call with two qubits, two variables and two caller axes that returned
C6_Witness ==
    /\ apc = "done"
    /\ ~HasKey(axis0, "qubit")
    /\ Len(axis0) = 2
    /\ Len(qubits) = 2
    /\ Cardinality(DOMAIN ds) = 2

-----------------------------------------------------------------------------
(* SpecShape: fetch_single_shot_results_as_xarray, lines 67-123            *)
(*                                                                         *)
(* One measurement variable and its loop over the qubits.  An axis value   *)
(* is a sequence of coordinates or a scalar; an array is known by its      *)
(* shape.                                                                  *)

MaxRank == 3
MaxDim == 3
MaxShotQubits == 2

SSVar == <<"I">>
SSAxisNames == <<"t", "repetition", "f", "g">>

Coord(n) == [i \in 1..n |-> i]

AxisValues ==
    [kind : {"seq"}, coords : {Coord(n) : n \in 1..MaxDim}]
        \cup [kind : {"scalar"}, num : 1..MaxDim]

\* line 94: np.squeeze drops every dimension of size 1
Squeeze(shape) == SelectSeq(shape, LAMBDA n : n /= 1)

\* line 96: len(v) if not np.isscalar(v) else v, for every axis in order
ExpectedShape(axis) ==
    [i \in DOMAIN axis |->
        IF axis[i].val.kind = "scalar" THEN axis[i].val.num
        ELSE Len(axis[i].val.coords)]

\* sorted(...): ascending, by taking the least element out
RECURSIVE Sorted(_)
Sorted(s) ==
    IF s = <<>> THEN <<>>
    ELSE LET m == CHOOSE x \in Range(s) : \A y \in Range(s) : x <= y
             i == CHOOSE k \in DOMAIN s : s[k] = m /\ \A j \in 1..(k - 1) : s[j] /= m
         IN  <<m>> \o Sorted(SubSeq(s, 1, i - 1) \o SubSeq(s, i + 1, Len(s)))

\* arr.shape.index(x): the first position holding x, 0-based
Index(shape, x) ==
    (CHOOSE k \in DOMAIN shape : shape[k] = x /\ \A j \in 1..(k - 1) : shape[j] /= x) - 1

\* line 100
Perm(shape, expected) == [i \in DOMAIN expected |-> Index(shape, expected[i])]

\* np.transpose accepts axes that are a permutation of range(ndim)
IsPermutation(perm, n) ==
    /\ Len(perm) = n
    /\ Range(perm) = 0..(n - 1)

\* the shape of np.transpose(arr, perm)
Transposed(shape, perm) == [i \in DOMAIN perm |-> shape[perm[i] + 1]]

InitShape ==
    /\ ss_axis \in {[i \in DOMAIN vs |-> [key |-> SSAxisNames[i], val |-> vs[i]]] :
                       vs \in SeqsUpTo(AxisValues, MaxRank)}
    /\ ss_nq \in 1..MaxShotQubits
    /\ ss_i = 0
    /\ raw = <<>>
    /\ arr = <<>>
    /\ qubit_data = <<>>
    /\ spc = "fetch"
    /\ serr = <<>>
    /\ IdleExtract /\ IdleAxes /\ IdleFind /\ IdleLoad

\* lines 93-94
FetchAndSqueeze ==
    /\ spc = "fetch"
    /\ ss_i < ss_nq
    /\ \E r \in SeqsUpTo(1..MaxDim, MaxRank) :
          /\ raw' = r
          /\ arr' = Squeeze(r)
    /\ spc' = "check"
    /\ UNCHANGED <<ss_axis, ss_nq, ss_i, qubit_data, serr>>
    /\ UNCHANGED <<exVars, axisVars, walkVars, loadVars>>

\* line 106 and the step of the loop
Store(a) ==
    /\ arr' = a
    /\ qubit_data' = Append(qubit_data, a)
    /\ ss_i' = ss_i + 1
    /\ spc' = IF ss_i + 1 < ss_nq THEN "fetch" ELSE "stack"
    /\ serr' = <<>>

Raise(e) ==
    /\ spc' = "raised"
    /\ serr' = e
    /\ UNCHANGED <<arr, qubit_data, ss_i>>

\* lines 96-106
Validate ==
    /\ spc = "check"
    /\ LET expected_shape == ExpectedShape(ss_axis)
       IN  IF arr = expected_shape
           THEN Store(arr)
           ELSE IF Sorted(arr) = Sorted(expected_shape)
                THEN LET perm == Perm(arr, expected_shape)
                     IN  IF IsPermutation(perm, Len(arr))
                         THEN Store(Transposed(arr, perm))
                         ELSE Raise(<<"ValueError: repeated axis in transpose", <<>>>>)
                ELSE Raise(<<"ValueError: Shape mismatch", SSVar \o Str(ss_i + 1)>>)
    /\ UNCHANGED <<ss_axis, ss_nq, raw>>
    /\ UNCHANGED <<exVars, axisVars, walkVars, loadVars>>

\* lines 107-123: the stack of the stored arrays, labelled
\* ["qubit"] + list(measurement_axis.keys())
StackAndBuild ==
    /\ spc = "stack"
    /\ spc' = "done"
    /\ UNCHANGED <<ss_axis, ss_nq, ss_i, raw, arr, qubit_data, serr>>
    /\ UNCHANGED <<exVars, axisVars, walkVars, loadVars>>

NextShape == FetchAndSqueeze \/ Validate \/ StackAndBuild

SpecShape == InitShape /\ [][NextShape]_vars

\* the latest fetch has been through the check of lines 96-105
Validated ==
    \/ spc = "raised"
    \/ spc \in {"fetch", "stack"} /\ qubit_data /= <<>>

Count(s, x) == Cardinality({i \in DOMAIN s : s[i] = x})

SameMultiset(s, t) == \A x \in Range(s) \cup Range(t) : Count(s, x) = Count(t, x)

\* C5: for every fetch whose squeezed shape differs from the expected shape:
\* if the multiset of its sizes equals the multiset of the expected sizes
\* (repeated sizes included) the array is transposed to exactly the expected
\* shape and no error is raised; only when the multisets differ does the call
\* fail, with a shape-mismatch error naming the variable and the 1-based
\* qubit index.
C5_PermutedShapeIsTransposed ==
    LET sq == Squeeze(raw)
        expected == ExpectedShape(ss_axis)
    IN  (Validated /\ sq /= expected) =>
            IF SameMultiset(sq, expected)
            THEN /\ spc /= "raised"
                 /\ qubit_data[Len(qubit_data)] = expected
            ELSE /\ spc = "raised"
                 /\ serr = <<"ValueError: Shape mismatch", SSVar \o Str(ss_i + 1)>>

\* C10: a raw result whose shape is the expected shape, optionally preceded
\* by extra dimensions of size 1, is accepted without a shape-mismatch error
\* and stored with exactly the expected shape, also when an axis has length 1
\* or the scalar value 1.
C10_ExpectedShapeIsAccepted ==
    LET expected == ExpectedShape(ss_axis)
    IN  (/\ Validated
         /\ \E k \in 0..Len(raw) :
               raw = [i \in 1..k |-> 1] \o expected) =>
            /\ spc /= "raised"
            /\ qubit_data[Len(qubit_data)] = expected

-----------------------------------------------------------------------------
(* SpecFind: find_numbered_folder, lines 132-145                           *)
(*                                                                         *)
(* The tree under base_path: node 0 is base_path, nodes 1..n are its       *)
(* entries at any depth; parent[i] < i, so that a directory lists its      *)
(* entries in the order of their numbers, and the names are free, so every *)
(* listing order of every tree is covered.  A path is the sequence of its  *)
(* components.                                                             *)

MaxNodes == 3

Numbers == {7, 70}

EntryNames ==
    { <<"#", "7", "_", "f">>, <<"#", "7", "0", "_", "b">>, <<"#", "7", "_">>,
      <<"#", "7">>, <<"d">> }

BasePath == <<"base">>

Trees ==
    UNION {
        {t \in [parent : [1..n -> 0..(n - 1)], dname : [1..n -> EntryNames],
                isdir : [1..n -> BOOLEAN]] :
            /\ \A i \in 1..n : t.parent[i] < i
            /\ \A i \in 1..n : t.parent[i] /= 0 => t.isdir[t.parent[i]]
            /\ \A i, j \in 1..n :
                 (i /= j /\ t.parent[i] = t.parent[j]) => t.dname[i] /= t.dname[j]}
        : n \in 0..MaxNodes}

\* the path of a node, as os.walk builds it with os.path.join
RECURSIVE PathOf(_)
PathOf(n) == IF n = 0 THEN BasePath ELSE Append(PathOf(parent[n]), dname[n])

\* dirs of the triple os.walk yields for a directory, in listing order
Dirs(top) ==
    LET kids == {i \in DOMAIN parent : parent[i] = top /\ isdir[i]}
        F[k \in 0..Len(parent)] ==
            IF k = 0 THEN <<>>
            ELSE IF k \in kids THEN Append(F[k - 1], k) ELSE F[k - 1]
    IN  F[Len(parent)]

\* line 137
SearchPrefix(n) == <<"#">> \o Str(n) \o <<"_">>

\* a name that only has to begin with the prefix
MatchesPrefixOnly(d, search_prefix) == StartsWith(d, search_prefix)

\* the condition of line 141
Matches(d, search_prefix) ==
    /\ StartsWith(d, search_prefix)
    /\ Len(d) > Len(search_prefix)

\* line 141
MatchingDirs(top, search_prefix) ==
    SelectSeq(Dirs(top), LAMBDA i : Matches(dname[i], search_prefix))

InitFind ==
    /\ number \in Numbers
    /\ \E t \in Trees :
          /\ parent = t.parent
          /\ dname = t.dname
          /\ isdir = t.isdir
    /\ walk = <<0>>
    /\ found = [found |-> FALSE, path |-> <<>>]
    /\ wpc = "walk"
    /\ IdleExtract /\ IdleAxes /\ IdleShape /\ IdleLoad

\* lines 140-143: one triple of os.walk, top-down
WalkStep ==
    /\ wpc = "walk"
    /\ walk /= <<>>
    /\ LET root == Head(walk)
           matching_dirs == MatchingDirs(root, SearchPrefix(number))
       IN  IF matching_dirs /= <<>>
           THEN /\ found' = [found |-> TRUE,
                             path |-> Append(PathOf(root), dname[matching_dirs[1]])]
                /\ wpc' = "done"
                /\ walk' = <<>>
           ELSE /\ walk' = Dirs(root) \o Tail(walk)
                /\ UNCHANGED <<found, wpc>>
    /\ UNCHANGED <<number, parent, dname, isdir>>
    /\ UNCHANGED <<exVars, axisVars, shapeVars, loadVars>>

\* line 145
ReturnNone ==
    /\ wpc = "walk"
    /\ walk = <<>>
    /\ found' = [found |-> FALSE, path |-> <<>>]
    /\ wpc' = "done"
    /\ UNCHANGED <<number, parent, dname, isdir, walk>>
    /\ UNCHANGED <<exVars, axisVars, shapeVars, loadVars>>

NextFind == WalkStep \/ ReturnNone

SpecFind == InitFind /\ [][NextFind]_vars

\* the name is "#N_" followed by at least one character
IsNumbered(name, n) ==
    \E k \in 1..Len(name) :
        /\ k < Len(name)
        /\ SubSeq(name, 1, k) = <<"#">> \o Str(n) \o <<"_">>

\* C4: find_numbered_folder returns either None or the full path of a
\* directory under the root whose name starts with exactly "#N_" and has at
\* least one further character; it returns None if and only if no directory
\* at any depth under the root has such a name.
C4_FindsNumberedFolderOrNone ==
    wpc = "done" =>
        /\ found.found =>
             \E i \in DOMAIN parent :
                /\ isdir[i]
                /\ IsNumbered(dname[i], number)
                /\ found.path = PathOf(i)
        /\ ~found.found <=>
             ~\E i \in DOMAIN parent : isdir[i] /\ IsNumbered(dname[i], number)

\* the search for 7 passed "#70_b" and "#7_" by and found a folder below the
\* first level
C4_Witness ==
    /\ wpc = "done"
    /\ number = 7
    /\ found.found
    /\ Len(found.path) = 3
    /\ \E i, j \in DOMAIN parent :
          /\ isdir[i] /\ dname[i] = <<"#", "7", "0", "_", "b">>
          /\ isdir[j] /\ dname[j] = <<"#", "7", "_">>

-----------------------------------------------------------------------------
(* SpecLoad: load_dataset, lines 149-196                                   *)
(*                                                                         *)
(* storage is what find_numbered_folder meets under the storage root:      *)
(* whether a folder "#<serial_number>_..." exists and the names of its     *)
(* files; cwd_files are the names in the process's current directory,      *)
(* which is what os.listdir(None) lists.  parameters is the caller's       *)
(* object: the tuple returned refers to it by ParametersRef.               *)

MaxDsQubits == 2

FolderFileNames ==
    { <<"ds", "h5">>, <<"aux", "h5">>, <<"ds", "v2", "h5">>, <<"data", "json">> }
CwdFileNames == { <<"ds", "h5">> }
RegistryNames == {"q1", "q2"}
TargetNames == {"ds", "aux"}
ParamNames == {"load_data_id", "amplitude", "frequency"}
ParamValues == {0, 1}
ParametersRef == "parameters"
DatasetRef == "ds"
FolderPath == "folder"

Mappings(K, V) == UNION {[S -> V] : S \in SUBSET K}

None == [none |-> TRUE, val |-> <<>>]

Some(v) == [none |-> FALSE, val |-> v]

\* f.endswith('.h5')
EndsWithH5(f) == Len(f) >= 2 /\ f[Len(f)] = "h5"

\* file.split('.')[0]
Stem(f) == f[1]

InitLoad ==
    /\ serial_is_int \in BOOLEAN
    /\ target_filename \in TargetNames
    /\ parameters \in {[given |-> FALSE, fields |-> <<>>]}
                        \cup [given : {TRUE}, fields : Mappings(ParamNames, ParamValues)]
    /\ params0 = parameters
    /\ storage \in {[found |-> FALSE, files |-> {}]}
                     \cup [found : {TRUE}, files : SUBSET FolderFileNames]
    /\ cwd_files \in SUBSET CwdFileNames
    /\ base_folder = [none |-> TRUE, path |-> ""]
    /\ nc_files = {}
    /\ filename = None
    /\ path_built = FALSE
    /\ dataset = [open |-> FALSE, qubit |-> <<>>]
    /\ json_data = [has_ip |-> FALSE, ip |-> <<>>]
    /\ machine = [loaded |-> FALSE, qubits |-> {}]
    /\ load_failed = FALSE
    /\ lqubits = <<>>
    /\ open_handles = {}
    /\ result = <<>>
    /\ lpc = "start"
    /\ lerr = ""
    /\ IdleExtract /\ IdleAxes /\ IdleShape /\ IdleFind

LoadRaise(e) ==
    /\ lpc' = "raised"
    /\ lerr' = e

\* lines 160-161
CheckSerial ==
    /\ lpc = "start"
    /\ IF serial_is_int
       THEN lpc' = "find" /\ lerr' = lerr
       ELSE LoadRaise("ValueError")
    /\ UNCHANGED <<serial_is_int, target_filename, parameters, params0, storage,
                   cwd_files, base_folder, nc_files, filename, path_built, dataset,
                   json_data, machine, load_failed, lqubits, open_handles, result>>
    /\ UNCHANGED <<exVars, axisVars, shapeVars, walkVars>>

\* line 163: the folder, or None
FindFolder ==
    /\ lpc = "find"
    /\ base_folder' = IF storage.found
                      THEN [none |-> FALSE, path |-> FolderPath]
                      ELSE [none |-> TRUE, path |-> ""]
    /\ lpc' = "list"
    /\ UNCHANGED <<serial_is_int, target_filename, parameters, params0, storage,
                   cwd_files, nc_files, filename, path_built, dataset, json_data,
                   machine, load_failed, lqubits, open_handles, result, lerr>>
    /\ UNCHANGED <<exVars, axisVars, shapeVars, walkVars>>

\* os.listdir(base_folder): with None it lists the current directory
ListDir(folder) == IF folder.none THEN cwd_files ELSE storage.files

\* lines 165-170; of several files with the stem, the first in listing order
ListAndSelect ==
    /\ lpc = "list"
    /\ LET nc == {f \in ListDir(base_folder) : EndsWithH5(f)}
           is_present == target_filename \in {Stem(file) : file \in nc}
       IN  /\ nc_files' = nc
           /\ IF is_present
              THEN \E file \in {f \in nc : target_filename = Stem(f)} :
                       filename' = Some(file)
              ELSE filename' = None
    /\ lpc' = "branch"
    /\ UNCHANGED <<serial_is_int, target_filename, parameters, params0, storage,
                   cwd_files, base_folder, path_built, dataset, json_data, machine,
                   load_failed, lqubits, open_handles, result, lerr>>
    /\ UNCHANGED <<exVars, axisVars, shapeVars, walkVars>>

\* os.path.join(a, b) raises TypeError when a or b is None
JoinRaises(folder, name) == folder.none \/ name.none

\* lines 172-175
BuildPaths ==
    /\ lpc = "branch"
    /\ nc_files /= {}
    /\ path_built' = TRUE
    /\ IF JoinRaises(base_folder, filename)
       THEN LoadRaise("TypeError")
       ELSE lpc' = "open" /\ lerr' = lerr
    /\ UNCHANGED <<serial_is_int, target_filename, parameters, params0, storage,
                   cwd_files, base_folder, nc_files, filename, dataset, json_data,
                   machine, load_failed, lqubits, open_handles, result>>
    /\ UNCHANGED <<exVars, axisVars, shapeVars, walkVars>>

\* lines 194-196
ReturnNoFile ==
    /\ lpc = "branch"
    /\ nc_files = {}
    /\ lpc' = "returned_none"
    /\ UNCHANGED <<serial_is_int, target_filename, parameters, params0, storage,
                   cwd_files, base_folder, nc_files, filename, path_built, dataset,
                   json_data, machine, load_failed, lqubits, open_handles, result, lerr>>
    /\ UNCHANGED <<exVars, axisVars, shapeVars, walkVars>>

DsQubitCoords == SeqsUpTo(RegistryNames, MaxDsQubits)

\* line 177: xr.open_dataset leaves the file open behind the dataset it returns
OpenDataset ==
    /\ lpc = "open"
    /\ \/ \E q \in DsQubitCoords :
            /\ dataset' = [open |-> TRUE, qubit |-> q]
            /\ open_handles' = open_handles \cup {DatasetRef}
            /\ lpc' = "json"
            /\ lerr' = lerr
       \/ /\ LoadRaise("OSError")
          /\ UNCHANGED <<dataset, open_handles>>
    /\ UNCHANGED <<serial_is_int, target_filename, parameters, params0, storage,
                   cwd_files, base_folder, nc_files, filename, path_built, json_data,
                   machine, load_failed, lqubits, result>>
    /\ UNCHANGED <<exVars, axisVars, shapeVars, walkVars>>

\* line 178: open(json_path, 'r')
OpenJson ==
    /\ lpc = "json"
    /\ IF <<"data", "json">> \in storage.files
       THEN /\ open_handles' = open_handles \cup {"json"}
            /\ lpc' = "parse"
            /\ lerr' = lerr
       ELSE /\ LoadRaise("FileNotFoundError")
            /\ UNCHANGED open_handles
    /\ UNCHANGED <<serial_is_int, target_filename, parameters, params0, storage,
                   cwd_files, base_folder, nc_files, filename, path_built, dataset,
                   json_data, machine, load_failed, lqubits, result>>
    /\ UNCHANGED <<exVars, axisVars, shapeVars, walkVars>>

\* line 179, and the end of the with block, which closes f either way
ParseJson ==
    /\ lpc = "parse"
    /\ open_handles' = open_handles \ {"json"}
    /\ \/ \E ip \in Mappings(ParamNames, ParamValues) :
            /\ json_data' = [has_ip |-> TRUE, ip |-> ip]
            /\ lpc' = "quam"
            /\ lerr' = lerr
       \/ /\ json_data' = [has_ip |-> FALSE, ip |-> <<>>]
          /\ lpc' = "quam"
          /\ lerr' = lerr
       \/ /\ LoadRaise("JSONDecodeError")
          /\ UNCHANGED json_data
    /\ UNCHANGED <<serial_is_int, target_filename, parameters, params0, storage,
                   cwd_files, base_folder, nc_files, filename, path_built, dataset,
                   machine, load_failed, lqubits, result>>
    /\ UNCHANGED <<exVars, axisVars, shapeVars, walkVars>>

\* lines 180-184
LoadMachine ==
    /\ lpc = "quam"
    /\ \/ \E reg \in SUBSET RegistryNames :
            /\ machine' = [loaded |-> TRUE, qubits |-> reg]
            /\ UNCHANGED load_failed
       \/ /\ machine' = [loaded |-> FALSE, qubits |-> {}]
          /\ load_failed' = TRUE
    /\ lpc' = "xref"
    /\ UNCHANGED <<serial_is_int, target_filename, parameters, params0, storage,
                   cwd_files, base_folder, nc_files, filename, path_built, dataset,
                   json_data, lqubits, open_handles, result, lerr>>
    /\ UNCHANGED <<exVars, axisVars, shapeVars, walkVars>>

\* a cross-reference that skips the lookup when there is no machine
XrefErrorGuarded(m, names) ==
    IF names = <<>> \/ ~m.loaded THEN ""
    ELSE IF \E i \in DOMAIN names : names[i] \notin m.qubits THEN "KeyError"
    ELSE ""

\* line 185: machine.qubits[qname] is evaluated once per name, so not at all
\* for an empty coordinate; "" stands for no error
XrefError(m, names) ==
    IF names = <<>> THEN ""
    ELSE IF ~m.loaded THEN "AttributeError"
    ELSE IF \E i \in DOMAIN names : names[i] \notin m.qubits THEN "KeyError"
    ELSE ""

CrossRef ==
    /\ lpc = "xref"
    /\ LET e == XrefError(machine, dataset.qubit)
       IN  IF e = ""
           THEN /\ lqubits' = [i \in DOMAIN dataset.qubit |-> [name |-> dataset.qubit[i]]]
                /\ lpc' = "params"
                /\ lerr' = lerr
           ELSE /\ LoadRaise(e)
                /\ UNCHANGED lqubits
    /\ UNCHANGED <<serial_is_int, target_filename, parameters, params0, storage,
                   cwd_files, base_folder, nc_files, filename, path_built, dataset,
                   json_data, machine, load_failed, open_handles, result>>
    /\ UNCHANGED <<exVars, axisVars, shapeVars, walkVars>>

\* an overlay that does not spare load_data_id
OverlayAll(fields, ip) ==
    [n \in DOMAIN fields |-> IF n \in DOMAIN ip THEN ip[n] ELSE fields[n]]

\* lines 187-190
Overlay(fields, ip) ==
    [n \in DOMAIN fields |->
        IF n /= "load_data_id" /\ n \in DOMAIN ip THEN ip[n] ELSE fields[n]]

\* line 189 reads json_data["initial_parameters"] for every field but load_data_id
OverlayRaises(fields, jd) ==
    /\ ~jd.has_ip
    /\ \E n \in DOMAIN fields : n /= "load_data_id"

\* lines 186-193
OverlayAndReturn ==
    /\ lpc = "params"
    /\ IF parameters.given
       THEN IF OverlayRaises(parameters.fields, json_data)
            THEN /\ LoadRaise("KeyError")
                 /\ UNCHANGED <<parameters, result>>
            ELSE /\ parameters' = [parameters EXCEPT
                                     !.fields = Overlay(parameters.fields, json_data.ip)]
                 /\ result' = <<DatasetRef, machine, json_data, lqubits, ParametersRef>>
                 /\ lpc' = "returned_bundle"
                 /\ lerr' = lerr
       ELSE /\ result' = <<DatasetRef, machine, json_data, lqubits>>
            /\ lpc' = "returned_bundle"
            /\ lerr' = lerr
            /\ UNCHANGED parameters
    /\ UNCHANGED <<serial_is_int, target_filename, params0, storage, cwd_files,
                   base_folder, nc_files, filename, path_built, dataset, json_data,
                   machine, load_failed, lqubits, open_handles>>
    /\ UNCHANGED <<exVars, axisVars, shapeVars, walkVars>>

NextLoad ==
    \/ CheckSerial
    \/ FindFolder
    \/ ListAndSelect
    \/ BuildPaths
    \/ ReturnNoFile
    \/ OpenDataset
    \/ OpenJson
    \/ ParseJson
    \/ LoadMachine
    \/ CrossRef
    \/ OverlayAndReturn

SpecLoad == InitLoad /\ [][NextLoad]_vars

Spec == SpecLoad

Exited == lpc \in {"raised", "returned_none", "returned_bundle"}

\* C1: with an integer serial_number for which find_numbered_folder finds
\* no folder, load_dataset ends in the not-found outcome (no bundle) and
\* raises nothing from the file listing or the path construction, whatever
\* the current directory holds.
C1_NoFolderIsNotFound ==
    (Exited /\ serial_is_int /\ ~storage.found) => lpc = "returned_none"

\* C2: when the resolved folder holds data files (.h5) but none whose name
\* minus extension equals target_filename, the dataset file is treated as
\* absent: no path is built for it, it is not opened, and the call does not
\* end in an unhandled error.
C2_NoMatchingFileIsAbsent ==
    (/\ Exited
     /\ ~base_folder.none
     /\ nc_files /= {}
     /\ \A f \in nc_files : ~(Len(f) = 2 /\ f[1] = target_filename)) =>
        /\ ~path_built
        /\ ~dataset.open
        /\ lpc /= "raised"

C8_AbsentStateAlwaysFails ==
    /\ (Exited /\ load_failed) => lpc = "raised"
    /\ (Exited /\ machine.loaded
          /\ \E i \in DOMAIN dataset.qubit : dataset.qubit[i] \notin machine.qubits) =>
            lpc = "raised"

\* C8 as amended: the failure needs at least one qubit coordinate value
C8_AbsentStateFailsOnNonEmptyCoordinate ==
    /\ (Exited /\ load_failed /\ dataset.qubit /= <<>>) =>
            (lpc = "raised" /\ lerr = "AttributeError")
    /\ (Exited /\ machine.loaded
          /\ \E i \in DOMAIN dataset.qubit : dataset.qubit[i] \notin machine.qubits) =>
            (lpc = "raised" /\ lerr = "KeyError")

\* the state failed to load, the dataset has two qubits, and the call failed
C8_Witness ==
    /\ lpc = "raised"
    /\ load_failed
    /\ Len(dataset.qubit) = 2

\* C9: on every exit of load_dataset that is a failure, every file handle the
\* call opened has been released.
C9_FailureReleasesHandles ==
    lpc = "raised" => open_handles = {}

=============================================================================
